---- MODULE Spec2Model ----
(***************************************************************************)
(* Model of src/meta/kvapi/src/kv_api.rs: the prefix-range functions       *)
(* prefix_of_string and get_start_and_end_of_prefix, the KVApi trait, its  *)
(* blanket implementation for Deref wrappers and the AsKVApi projection.   *)
(*                                                                         *)
(* A string is a sequence of Unicode code points (Rust chars).  A          *)
(* Result<T, E> is a record with tag "Ok" (field val) or tag "Err".        *)
(***************************************************************************)
EXTENDS Naturals, Integers, Sequences, FiniteSets, TLC

VARIABLES
    s,        \* the prefix handed to the prefix-range functions
    k,        \* a key of the key space the range is compared against
    called,   \* which prefix-range function ran last
    out,      \* what it returned
    store,    \* the backend's records: key -> value or NoValue
    calls     \* per caller: its KVApi call in flight or just returned

vars == <<s, k, called, out, store, calls>>
fnVars == <<s, k, called, out>>
kvVars == <<store, calls>>

-----------------------------------------------------------------------------
(* Bounds *)

MaxLen == 3       \* longest prefix drawn as input
MaxKeyLen == 3    \* longest key compared against a range
MaxDepth == 2     \* deepest nesting of Deref wrappers around the backend

(* Characters the prefixes are drawn from: the two letters of the          *)
(* documented example, the last incrementable character, the maximum       *)
(* ASCII character and the first non-ASCII character.  Keys also use the   *)
(* successor of the second letter.                                         *)
AsciiChars == {96, 97, 126, 127}
Chars == AsciiChars \cup {128}
KeyChars == AsciiChars \cup {98}

RECURSIVE StringsUpTo(_, _)
StringsUpTo(alphabet, n) ==
    IF n = 0 THEN {<<>>}
    ELSE LET shorter == StringsUpTo(alphabet, n - 1)
         IN  shorter \cup {Append(t, c) : t \in {u \in shorter : Len(u) = n - 1},
                                          c \in alphabet}

-----------------------------------------------------------------------------
(* Strings *)

\* char::is_ascii
IsAscii(c) == c <= 127

\* char::len_utf8
LenUtf8(c) ==
    IF c < 128 THEN 1 ELSE IF c < 2048 THEN 2 ELSE IF c < 65536 THEN 3 ELSE 4

\* str::len: the length in bytes
RECURSIVE StrLen(_)
StrLen(str) ==
    IF str = <<>> THEN 0 ELSE LenUtf8(Head(str)) + StrLen(Tail(str))

\* s.chars().nth(l): the l-th character counted from 0, if there is one
NoChar == -1
CharsNth(str, l) == IF l < Len(str) THEN str[l + 1] ELSE NoChar

\* c as u8
AsU8(c) == c % 256

\* Ord for str: byte-lexicographic order; on UTF-8 this is the order of the
\* code points, a proper prefix being smaller.
RECURSIVE StrLess(_, _)
StrLess(a, b) ==
    IF b = <<>> THEN FALSE
    ELSE IF a = <<>> THEN TRUE
    ELSE IF Head(a) # Head(b) THEN Head(a) < Head(b)
    ELSE StrLess(Tail(a), Tail(b))

StrLeq(a, b) == a = b \/ StrLess(a, b)

\* str::starts_with
StartsWith(key, p) ==
    Len(p) <= Len(key) /\ SubSeq(key, 1, Len(p)) = p

\* common_base::base::replace_nth_char: the idx-th character (from 0)
\* replaced by newchar, all others kept.
replace_nth_char(str, idx, newchar) ==
    [i \in 1..Len(str) |-> IF i - 1 = idx THEN newchar ELSE str[i]]

-----------------------------------------------------------------------------
(* Results *)

Ok(v) == [tag |-> "Ok", val |-> v]
OnlySupportAsciiChars(c) ==
    [tag |-> "Err", code |-> "OnlySupportAsciiChars", char |-> c]

IsOk(r) == r.tag = "Ok"
IsErr(r) == r.tag = "Err"

-----------------------------------------------------------------------------
(* prefix_of_string *)

\* Variant: only the first character is validated.
FirstNonAscii_HeadOnly(str) ==
    IF str # <<>> /\ ~IsAscii(Head(str)) THEN Head(str) ELSE NoChar

\* The validation loop: the first character that is not ASCII, if any.
RECURSIVE FirstNonAscii(_)
FirstNonAscii(str) ==
    IF str = <<>> THEN NoChar
    ELSE IF ~IsAscii(Head(str)) THEN Head(str)
    ELSE FirstNonAscii(Tail(str))

\* Variant: the maximum character is not skipped, the last character is
\* incremented whatever it is.
ScanBack_NoSkip(str, l) ==
    IF l > 0 /\ CharsNth(str, l - 1) # NoChar
    THEN Ok(replace_nth_char(str, l - 1, (AsU8(CharsNth(str, l - 1)) + 1) % 256))
    ELSE Ok(str \o <<127>>)

\* Variant: nothing is appended when no character can be incremented.
RECURSIVE ScanBack_NoAppend(_, _)
ScanBack_NoAppend(str, l) ==
    IF l > 0
    THEN LET l1 == l - 1
             c  == CharsNth(str, l1)
         IN  IF c # NoChar /\ c # 127
             THEN Ok(replace_nth_char(str, l1, (AsU8(c) + 1) % 256))
             ELSE ScanBack_NoAppend(str, l1)
    ELSE Ok(str)

\* The backward scan `while l > 0`, entered with l characters left to look
\* at.  The increment is done on a u8.
RECURSIVE ScanBack(_, _)
ScanBack(str, l) ==
    IF l > 0
    THEN LET l1 == l - 1
             c  == CharsNth(str, l1)
         IN  IF c # NoChar
             THEN IF c = 127
                  THEN ScanBack(str, l1)
                  ELSE Ok(replace_nth_char(str, l1, (AsU8(c) + 1) % 256))
             ELSE ScanBack(str, l1)
    ELSE Ok(str \o <<127>>)

prefix_of_string(str) ==
    IF FirstNonAscii(str) # NoChar
    THEN OnlySupportAsciiChars(FirstNonAscii(str))
    ELSE ScanBack(str, StrLen(str))

\* Variant: the end bound is returned in both places.
get_start_and_end_of_prefix_EndTwice(prefix) ==
    LET r == prefix_of_string(prefix)
    IN  IF IsErr(r) THEN r ELSE Ok(<<r.val, r.val>>)

\* get_start_and_end_of_prefix: `?` hands the error on as it is.
get_start_and_end_of_prefix(prefix) ==
    LET r == prefix_of_string(prefix)
    IN  IF IsErr(r) THEN r ELSE Ok(<<prefix, r.val>>)

-----------------------------------------------------------------------------
(* The prefix-range functions applied to every bounded input *)

NotCalled == [tag |-> "None"]

Prefixes == StringsUpTo(Chars, MaxLen)
Keys == StringsUpTo(KeyChars, MaxKeyLen)

InitFn ==
    /\ s \in Prefixes
    /\ k \in Keys
    /\ called = "none"
    /\ out = NotCalled

CallPrefixOfString ==
    /\ called = "none"
    /\ called' = "prefix_of_string"
    /\ out' = prefix_of_string(s)
    /\ UNCHANGED <<s, k, kvVars>>

CallGetStartAndEndOfPrefix ==
    /\ called = "none"
    /\ called' = "get_start_and_end_of_prefix"
    /\ out' = get_start_and_end_of_prefix(s)
    /\ UNCHANGED <<s, k, kvVars>>

-----------------------------------------------------------------------------
(* A conforming backend: the five KVApi operations on a map of records.    *)
(* Each takes the backend's records and the fault the backend meets during *)
(* the call ("none": it succeeds), and gives the reply and the records     *)
(* afterwards.                                                             *)

NoValue == "absent"
Values == {"v1", "v2"}

user_1 == <<117, 115, 101, 114, 47, 49>>     \* "user/1"
user_2 == <<117, 115, 101, 114, 47, 50>>     \* "user/2"
users  == <<117, 115, 101, 114, 115>>        \* "users"
user_slash == <<117, 115, 101, 114, 47>>     \* "user/"
user_1_del == <<117, 115, 101, 114, 47, 49, 127>>    \* "user/1\x7f"

KVKeys == {user_1, user_2, users}
KVPrefixes == {user_slash, user_1_del, <<117, 115, 233>>}
Faults == {"none", "StorageError", "NetworkError"}

BackendErr(fault) == [tag |-> "Err", code |-> fault]

KVGet(st, key) == IF key \in DOMAIN st THEN st[key] ELSE NoValue

\* The keys of a set in ascending order.
RECURSIVE SortKeys(_)
SortKeys(S) ==
    IF S = {} THEN <<>>
    ELSE LET least == CHOOSE x \in S : \A y \in S : StrLeq(x, y)
         IN  <<least>> \o SortKeys(S \ {least})

\* What the backend's method was handed as its argument.
Handed(kind, arg) == [kind |-> kind, val |-> arg]

Backend_upsert_kv(st, req, fault) ==
    IF fault # "none"
    THEN [reply |-> BackendErr(fault), store |-> st,
          received |-> Handed("UpsertKVReq", req)]
    ELSE LET cur == KVGet(st, req.key)
             matches == req.expect = "any" \/ req.expect = cur
             new == IF matches THEN req.value ELSE cur
         IN  [reply |-> Ok([prev |-> cur, result |-> new]),
              store |-> [st EXCEPT ![req.key] = new],
              received |-> Handed("UpsertKVReq", req)]

Backend_get_kv(st, key, fault) ==
    IF fault # "none"
    THEN [reply |-> BackendErr(fault), store |-> st,
          received |-> Handed("key", key)]
    ELSE [reply |-> Ok(KVGet(st, key)), store |-> st,
          received |-> Handed("key", key)]

Backend_mget_kv(st, keys, fault) ==
    IF fault # "none"
    THEN [reply |-> BackendErr(fault), store |-> st,
          received |-> Handed("keys", keys)]
    ELSE [reply |-> Ok([i \in 1..Len(keys) |-> KVGet(st, keys[i])]),
          store |-> st, received |-> Handed("keys", keys)]

\* "List key-value records that are starts with the specified prefix": the
\* backend is handed the prefix as a string and lists the records present
\* whose key starts with it, in key order.  It is handed no range and calls
\* no prefix_of_string; a prefix of any characters is accepted.
Backend_prefix_list_kv(st, prefix, fault) ==
    IF fault # "none"
    THEN [reply |-> BackendErr(fault), store |-> st,
          received |-> Handed("prefix", prefix)]
    ELSE LET listed == {key \in DOMAIN st :
                           st[key] # NoValue /\ StartsWith(key, prefix)}
             sorted == SortKeys(listed)
         IN  [reply |-> Ok([i \in 1..Len(sorted) |->
                               <<sorted[i], st[sorted[i]]>>]),
              store |-> st, received |-> Handed("prefix", prefix)]

RECURSIVE ApplyPuts(_, _)
ApplyPuts(st, puts) ==
    IF puts = <<>> THEN st
    ELSE ApplyPuts([st EXCEPT ![Head(puts).key] = Head(puts).value], Tail(puts))

Backend_transaction(st, txn, fault) ==
    IF fault # "none"
    THEN [reply |-> BackendErr(fault), store |-> st,
          received |-> Handed("TxnRequest", txn)]
    ELSE LET holds == \A c \in txn.conditions : KVGet(st, c.key) = c.expect
         IN  IF holds
             THEN [reply |-> Ok([success |-> TRUE,
                                 results |-> [i \in 1..Len(txn.puts) |->
                                                 txn.puts[i].value]]),
                   store |-> ApplyPuts(st, txn.puts),
                   received |-> Handed("TxnRequest", txn)]
             ELSE [reply |-> Ok([success |-> FALSE, results |-> <<>>]),
                   store |-> st, received |-> Handed("TxnRequest", txn)]

-----------------------------------------------------------------------------
(* impl KVApi for T: Deref<Target = U>.  A handle is the number of Deref   *)
(* wrappers around the backend; 0 is the backend itself.                   *)

Handles == 0..MaxDepth

\* self.deref()
Deref(h) == h - 1

RECURSIVE Deref_upsert_kv(_, _, _, _)
Deref_upsert_kv(h, st, act, fault) ==
    IF Deref(h) = 0 THEN Backend_upsert_kv(st, act, fault)
    ELSE Deref_upsert_kv(Deref(h), st, act, fault)

\* Variant: the wrapper reports every backend error as a storage error.
Deref_get_kv_RecodesError(h, st, key, fault) ==
    LET r == Backend_get_kv(st, key, fault)
    IN  IF IsErr(r.reply) THEN [r EXCEPT !.reply = BackendErr("StorageError")]
        ELSE r

RECURSIVE Deref_get_kv(_, _, _, _)
Deref_get_kv(h, st, key, fault) ==
    IF Deref(h) = 0 THEN Backend_get_kv(st, key, fault)
    ELSE Deref_get_kv(Deref(h), st, key, fault)

RECURSIVE Deref_mget_kv(_, _, _, _)
Deref_mget_kv(h, st, key, fault) ==
    IF Deref(h) = 0 THEN Backend_mget_kv(st, key, fault)
    ELSE Deref_mget_kv(Deref(h), st, key, fault)

\* Variant: the wrapper computes the range of the prefix before it
\* delegates: get_start_and_end_of_prefix(prefix)?, then the range is handed
\* to the backend, which lists the records present with a key in it.
Deref_prefix_list_kv_ComputesRange(h, st, prefix, fault) ==
    LET range == get_start_and_end_of_prefix(prefix)
    IN  IF IsErr(range)
        THEN [reply |-> range, store |-> st, received |-> Handed("none", <<>>)]
        ELSE IF fault # "none"
        THEN [reply |-> BackendErr(fault), store |-> st,
              received |-> Handed("range", range.val)]
        ELSE LET listed == {key \in DOMAIN st :
                               /\ st[key] # NoValue
                               /\ StrLeq(range.val[1], key)
                               /\ StrLess(key, range.val[2])}
                 sorted == SortKeys(listed)
             IN  [reply |-> Ok([i \in 1..Len(sorted) |->
                                   <<sorted[i], st[sorted[i]]>>]),
                  store |-> st, received |-> Handed("range", range.val)]

RECURSIVE Deref_prefix_list_kv(_, _, _, _)
Deref_prefix_list_kv(h, st, prefix, fault) ==
    IF Deref(h) = 0 THEN Backend_prefix_list_kv(st, prefix, fault)
    ELSE Deref_prefix_list_kv(Deref(h), st, prefix, fault)

RECURSIVE Deref_transaction(_, _, _, _)
Deref_transaction(h, st, txn, fault) ==
    IF Deref(h) = 0 THEN Backend_transaction(st, txn, fault)
    ELSE Deref_transaction(Deref(h), st, txn, fault)

\* AsKVApi::as_kv_api: the handle itself, seen as &dyn KVApi.
as_kv_api(h) == h

\* The handle a call is made on: the value itself or its as_kv_api view.
Receiver(h, via) == IF via = "as_kv_api" THEN as_kv_api(h) ELSE h

\* A call of a KVApi method on a handle: the backend's own implementation
\* on the backend, the blanket implementation on a wrapper.
KVApiCall(h, st, op, arg, fault) ==
    CASE op = "upsert_kv" ->
            IF h = 0 THEN Backend_upsert_kv(st, arg, fault)
            ELSE Deref_upsert_kv(h, st, arg, fault)
      [] op = "get_kv" ->
            IF h = 0 THEN Backend_get_kv(st, arg, fault)
            ELSE Deref_get_kv(h, st, arg, fault)
      [] op = "mget_kv" ->
            IF h = 0 THEN Backend_mget_kv(st, arg, fault)
            ELSE Deref_mget_kv(h, st, arg, fault)
      [] op = "prefix_list_kv" ->
            IF h = 0 THEN Backend_prefix_list_kv(st, arg, fault)
            ELSE Deref_prefix_list_kv(h, st, arg, fault)
      [] op = "transaction" ->
            IF h = 0 THEN Backend_transaction(st, arg, fault)
            ELSE Deref_transaction(h, st, arg, fault)

-----------------------------------------------------------------------------
(* Callers of the KVApi.  Every method is an async fn: a call is issued on *)
(* a handle and suspends at the .await of the forwarding; the backend acts *)
(* on it later, in one step (the backend serialises its operations), and   *)
(* the await returns the reply.  Calls of different callers on the same    *)
(* backend overlap: between the issue of a call and the backend acting on  *)
(* it the other callers issue calls and have theirs acted on.  A caller    *)
(* takes the reply of its call before it issues the next.                  *)

Callers == {"A", "B"}
Vias == {"direct", "as_kv_api"}

\* The ways a caller reaches the backend: a method call on the backend or on
\* a wrapper of any depth, or on the as_kv_api view of the backend or of the
\* outermost wrapper.
Receivers ==
    {[handle |-> h, via |-> "direct"] : h \in Handles}
        \cup {[handle |-> h, via |-> "as_kv_api"] : h \in {0, MaxDepth}}

Idle == [pc |-> "idle"]

\* A call in flight: the method, its argument and the handle it was made on.
InFlight(op, arg, h, via) ==
    [pc |-> "awaiting", op |-> op, arg |-> arg, handle |-> h, via |-> via]

\* A call that returned: what the backend was handed, the fault it met and
\* the reply.
Returned(c, fault, r) ==
    [pc |-> "returned", op |-> c.op, arg |-> c.arg, handle |-> c.handle,
     via |-> c.via, received |-> r.received, fault |-> fault,
     reply |-> r.reply]

Unconditional(key, value) == [key |-> key, value |-> value, expect |-> "any"]
UpsertReqs ==
    {Unconditional(user_1, "v1"), Unconditional(user_2, "v1"),
     Unconditional(users, "v1"),
     [key |-> user_1, value |-> "v2", expect |-> NoValue]}
GetKeys == {user_1}
MGetKeys == {<<users, user_1>>}
TxnRequests ==
    {[conditions |-> {[key |-> user_1, expect |-> NoValue]},
      puts |-> <<[key |-> user_2, value |-> "v1"]>>],
     [conditions |-> {},
      puts |-> <<[key |-> user_2, value |-> "v1"],
                 [key |-> users, value |-> "v1"]>>]}

InitKV ==
    /\ store = [key \in KVKeys |-> NoValue]
    /\ calls = [c \in Callers |-> Idle]

UpsertKV ==
    /\ \E c \in Callers, req \in UpsertReqs, r \in Receivers :
          /\ calls[c] = Idle
          /\ calls' = [calls EXCEPT
                          ![c] = InFlight("upsert_kv", req, r.handle, r.via)]
    /\ UNCHANGED <<store, fnVars>>

GetKV ==
    /\ \E c \in Callers, key \in GetKeys, r \in Receivers :
          /\ calls[c] = Idle
          /\ calls' = [calls EXCEPT
                          ![c] = InFlight("get_kv", key, r.handle, r.via)]
    /\ UNCHANGED <<store, fnVars>>

MGetKV ==
    /\ \E c \in Callers, keys \in MGetKeys, r \in Receivers :
          /\ calls[c] = Idle
          /\ calls' = [calls EXCEPT
                          ![c] = InFlight("mget_kv", keys, r.handle, r.via)]
    /\ UNCHANGED <<store, fnVars>>

PrefixListKV ==
    /\ \E c \in Callers, prefix \in KVPrefixes, r \in Receivers :
          /\ calls[c] = Idle
          /\ calls' = [calls EXCEPT
                          ![c] = InFlight("prefix_list_kv", prefix,
                                          r.handle, r.via)]
    /\ UNCHANGED <<store, fnVars>>

Transaction ==
    /\ \E c \in Callers, txn \in TxnRequests, r \in Receivers :
          /\ calls[c] = Idle
          /\ calls' = [calls EXCEPT
                          ![c] = InFlight("transaction", txn, r.handle, r.via)]
    /\ UNCHANGED <<store, fnVars>>

\* The backend acts on a call in flight, forwarded to it through the
\* handle's wrappers, and the await returns its reply.
BackendActs ==
    /\ \E c \in Callers, fault \in Faults :
          /\ calls[c].pc = "awaiting"
          /\ LET r == KVApiCall(Receiver(calls[c].handle, calls[c].via), store,
                                calls[c].op, calls[c].arg, fault)
             IN  /\ store' = r.store
                 /\ calls' = [calls EXCEPT
                                 ![c] = Returned(calls[c], fault, r)]
    /\ UNCHANGED fnVars

\* The caller takes the reply: the round trip is over.
TakeReply ==
    /\ \E c \in Callers :
          /\ calls[c].pc = "returned"
          /\ calls' = [calls EXCEPT ![c] = Idle]
    /\ UNCHANGED <<store, fnVars>>

-----------------------------------------------------------------------------
(* Specifications *)

Init ==
    /\ InitFn
    /\ InitKV

Next ==
    \/ CallPrefixOfString
    \/ CallGetStartAndEndOfPrefix

Spec == Init /\ [][Next]_vars

InitKVApi ==
    /\ s = <<>>
    /\ k = <<>>
    /\ called = "none"
    /\ out = NotCalled
    /\ InitKV

NextKVApi ==
    \/ UpsertKV
    \/ GetKV
    \/ MGetKV
    \/ PrefixListKV
    \/ Transaction
    \/ BackendActs
    \/ TakeReply

SpecKVApi == InitKVApi /\ [][NextKVApi]_vars

-----------------------------------------------------------------------------
(* Properties of the prefix-range functions (specification Spec) *)

AllAscii(str) == \A i \in 1..Len(str) : str[i] \in 0..127
All127(str) == \A i \in 1..Len(str) : str[i] = 127
RanPrefixOfString == called = "prefix_of_string"
RanGetStartAndEnd == called = "get_start_and_end_of_prefix"
InRange(key, start, end) == StrLeq(start, key) /\ StrLess(key, end)

\* The position (from 1) of the rightmost character other than 127.
LastNon127(str) ==
    CHOOSE i \in 1..Len(str) :
        str[i] # 127 /\ \A j \in (i + 1)..Len(str) : str[j] = 127

\* C1: for an ASCII prefix p, every ASCII key that starts with p lies in
\* [p, prefix_of_string(p)), and so no key outside the range starts with p.
C1_PrefixedKeysInRange ==
    (RanPrefixOfString /\ AllAscii(s) /\ StartsWith(k, s))
        => (IsOk(out) /\ InRange(k, s, out.val))

\* C2: for an ASCII prefix p, [p, prefix_of_string(p)) covers only keys that
\* start with p: the end is the least bound above the keys sharing p.
C2_RangeKeysStartWithPrefix ==
    (RanPrefixOfString /\ AllAscii(s) /\ IsOk(out) /\ InRange(k, s, out.val))
        => StartsWith(k, s)

\* C3: for an ASCII prefix with a character other than 127, the result is
\* the prefix with its rightmost non-127 character incremented by one, all
\* other characters and the length unchanged; "a" -> "b" and
\* [96,97,127] -> [96,98,127].
C3_IncrementsLastNon127 ==
    (RanPrefixOfString /\ AllAscii(s) /\ ~All127(s))
        => /\ IsOk(out)
           /\ Len(out.val) = Len(s)
           /\ \A i \in 1..Len(s) :
                  out.val[i] = IF i = LastNon127(s) THEN s[i] + 1 ELSE s[i]
           /\ (s = <<97>> => out.val = <<98>>)
           /\ (s = <<96, 97, 127>> => out.val = <<96, 98, 127>>)

C3_Witness ==
    /\ RanPrefixOfString
    /\ s = <<96, 97, 127>>
    /\ out = Ok(<<96, 98, 127>>)

\* C4: for a prefix of 127-characters only, the empty one included, the
\* result is the prefix with exactly one 127-character appended.
C4_AppendsTo127Only ==
    (RanPrefixOfString /\ All127(s)) => out = Ok(s \o <<127>>)

C4_Witness ==
    /\ RanPrefixOfString
    /\ s = <<127, 127>>
    /\ out = Ok(<<127, 127, 127>>)

\* C5: prefix_of_string fails, with OnlySupportAsciiChars and without a
\* bound, exactly when the input has a character above 127, wherever it is;
\* on every other input it returns a bound.
C5_FailsIffNonAscii ==
    RanPrefixOfString
        => /\ IsErr(out) <=> (\E i \in 1..Len(s) : s[i] > 127)
           /\ IsErr(out) => /\ out.code = "OnlySupportAsciiChars"
                            /\ "val" \notin DOMAIN out
           /\ ~IsErr(out) => (IsOk(out) /\ "val" \in DOMAIN out)

C5_Witness ==
    /\ RanPrefixOfString
    /\ s = <<96, 127, 128>>
    /\ IsErr(out)

\* C8: get_start_and_end_of_prefix(p) is the pair (p, prefix_of_string(p)),
\* and fails with the same error and no pair exactly when
\* prefix_of_string(p) fails.
C8_StartAndEndIsPair ==
    RanGetStartAndEnd
        => LET e == prefix_of_string(s)
           IN  IF IsOk(e)
               THEN out = Ok(<<s, e.val>>)
               ELSE out = e /\ IsErr(out) /\ "val" \notin DOMAIN out

C8_Witness ==
    /\ RanGetStartAndEnd
    /\ s = <<96, 97>>
    /\ out = Ok(<<(<<96, 97>>), (<<96, 98>>)>>)

\* C9: for an ASCII prefix p, prefix_of_string(p) is strictly greater than
\* p, so the range of get_start_and_end_of_prefix is not empty and holds the
\* key p itself.
C9_EndAbovePrefix ==
    /\ (RanPrefixOfString /\ AllAscii(s)) => (IsOk(out) /\ StrLess(s, out.val))
    /\ (RanGetStartAndEnd /\ AllAscii(s))
          => /\ IsOk(out)
             /\ StrLess(out.val[1], out.val[2])
             /\ (k = s => InRange(k, out.val[1], out.val[2]))

C9_Witness ==
    /\ RanGetStartAndEnd
    /\ s = <<127>>
    /\ k = s
    /\ IsOk(out)
    /\ InRange(k, out.val[1], out.val[2])

\* C10: for an ASCII input every character of the result is in 0..127, the
\* result is as long as the input or one longer, and prefix_of_string
\* accepts its own result.
C10_ResultIsAscii ==
    (RanPrefixOfString /\ AllAscii(s))
        => /\ IsOk(out)
           /\ \A i \in 1..Len(out.val) : out.val[i] \in 0..127
           /\ Len(out.val) \in {Len(s), Len(s) + 1}
           /\ IsOk(prefix_of_string(out.val))

C10_Witness ==
    /\ RanPrefixOfString
    /\ s = <<97, 126>>
    /\ out = Ok(<<97, 127>>)

-----------------------------------------------------------------------------
(* Properties of the KVApi (specification SpecKVApi) *)

\* A caller's call has just returned.
HasReturned(c) == calls[c].pc = "returned"

\* C6: a call on a wrapper of any depth, directly or through as_kv_api,
\* whatever calls came before it or overlap it, returns the reply or the
\* error that the same call made on the backend at that moment returns, and
\* leaves the backend's records as that call leaves them.
C6_DelegationTransparent ==
    [][\A c \in Callers :
          (calls[c].pc = "awaiting" /\ calls'[c].pc = "returned")
              => LET direct == KVApiCall(0, store, calls[c].op, calls[c].arg,
                                         calls'[c].fault)
                 IN  calls'[c].reply = direct.reply /\ store' = direct.store]_vars

C6_Witness ==
    /\ HasReturned("A")
    /\ calls["A"].op = "upsert_kv"
    /\ calls["A"].arg = [key |-> user_1, value |-> "v2", expect |-> NoValue]
    /\ calls["A"].handle = 2
    /\ calls["A"].via = "as_kv_api"
    /\ calls["A"].reply = Ok([prev |-> "v1", result |-> "v1"])
    /\ calls["B"].pc = "awaiting"
    /\ calls["B"].handle = 1

ListedKeys(entries) == [i \in 1..Len(entries) |-> entries[i][1]]

\* The step on which the backend acts on caller c's prefix_list_kv call.
ListReturns(c) ==
    /\ calls[c].pc = "awaiting"
    /\ calls'[c].pc = "returned"
    /\ calls[c].op = "prefix_list_kv"

\* The records of st with a key in K, in key order.
RecordsOf(st, K) ==
    LET sorted == SortKeys(K)
    IN  [i \in 1..Len(sorted) |-> <<sorted[i], st[sorted[i]]>>]

AllStored(st) == \A key \in KVKeys : st[key] # NoValue

====
